---- MODULE Spec2Model ----
(***************************************************************************)
(* Model of plugins/filters/services/services.go: the rule filter that     *)
(* maps discovered service instances to a plugin type.                     *)
(*                                                                         *)
(*   NewRuleFilter  reads the configured services files into the ruleset   *)
(*                  store (serviceRules).                                  *)
(*   matches        projects one instance to a flat attribute map and      *)
(*                  hands a ruleset's rules to the rule engine.            *)
(*   Map            first-match-wins classification of a batch.            *)
(*                                                                         *)
(* Spec      runs NewRuleFilter and then Map calls one after the other,    *)
(*           each call as one step.                                        *)
(* SpecConc  starts from a constructed filter and interleaves two Map      *)
(*           calls, one innermost loop iteration per step.                 *)
(***************************************************************************)
EXTENDS Integers, Sequences, FiniteSets, TLC

VARIABLES
    servicesFiles,  \* the "servicesfiles" configuration value
    built,          \* TRUE once NewRuleFilter has returned
    filter,         \* the *RuleFilter returned by NewRuleFilter, or NilFilter
    newErr,         \* the error returned by NewRuleFilter
    mem,            \* backing arrays of the slices the callers pass to Map
    calls           \* one record per Map call: position, output, result

vars == <<servicesFiles, built, filter, newErr, mem, calls>>

\* ------------------------------------------------------------------ bounds

\* longest "servicesfiles" list
MaxFiles == 2
\* longest batch of instances handed to one sequential Map call
MaxBatch == 3
\* longest batch of instances handed to one of the concurrent Map calls
MaxConcBatch == 2

\* ------------------------------------------------------------- Go values

NoErr == "nil"
\* the nil *RuleFilter
NilFilter == [nil |-> TRUE]
\* a services.Instances value: the nil slice, or a slice with its elements
NilInstances == [isNil |-> TRUE, items |-> <<>>]
Slice(items) == [isNil |-> FALSE, items |-> items]
NoLabels == [k \in {} |-> ""]

RECURSIVE SeqsUpTo(_, _)
\* all sequences over S of length at most n
SeqsUpTo(S, n) ==
    IF n = 0 THEN {<<>>}
    ELSE LET shorter == SeqsUpTo(S, n - 1)
         IN  shorter \cup {Append(q, x) : q \in shorter, x \in S}

\* ----------------------------------------------------------- file system
\* The documents the configured paths may name.  A document is what
\* encoding/json sees: a syntax error, or a JSON object with the fields of
\* the rule source format.

RedisRuleset ==
    [name |-> "redis", type |-> "redis",
     rules |-> <<[comparator |-> "eq", path |-> "ContainerImage", value |-> "redis:6"]>>]

PostgresRuleset ==
    [name |-> "pg", type |-> "postgres",
     rules |-> <<[comparator |-> "eq", path |-> "NetworkPublicPort", value |-> "5432"]>>]

LabelRuleset ==
    [name |-> "db-by-label", type |-> "database",
     rules |-> <<[comparator |-> "exists", path |-> "ContainerLabel-app", value |-> ""],
                 [comparator |-> "eq", path |-> "NetworkLabel-app", value |-> "db"]>>]

\* no "rules" field: decodes to an empty rule list
GenericRuleset ==
    [name |-> "any", type |-> "generic"]

\* a comparator the rule engine does not accept
BrokenRuleset ==
    [name |-> "broken", type |-> "broken",
     rules |-> <<[comparator |-> "like", path |-> "ContainerImage", value |-> "nginx"]>>]

NginxRuleset ==
    [name |-> "nginx", type |-> "nginx",
     rules |-> <<[comparator |-> "neq", path |-> "ContainerImage", value |-> "redis:6"]>>]

FileSystem ==
    [f \in {"a.json", "b.json", "defect.json", "bad.json", "missing.json"} |->
        CASE f = "a.json" ->
                [readable |-> TRUE,
                 doc |-> [kind |-> "object",
                          fields |-> [name |-> "a",
                                      signatures |-> <<RedisRuleset, PostgresRuleset>>]]]
          [] f = "b.json" ->
                [readable |-> TRUE,
                 doc |-> [kind |-> "object",
                          fields |-> [name |-> "b",
                                      signatures |-> <<LabelRuleset, GenericRuleset>>]]]
          [] f = "defect.json" ->
                [readable |-> TRUE,
                 doc |-> [kind |-> "object",
                          fields |-> [name |-> "defect",
                                      signatures |-> <<BrokenRuleset, NginxRuleset>>]]]
          [] f = "bad.json" ->
                [readable |-> TRUE, doc |-> [kind |-> "syntax error"]]
          [] OTHER ->
                [readable |-> FALSE]]

FileNames == DOMAIN FileSystem

Configs == SeqsUpTo(FileNames, MaxFiles)

\* -------------------------------------------------------------- decoding

\* a struct field left at its zero value when the document lacks the key
Field(obj, key, zero) == IF key \in DOMAIN obj THEN obj[key] ELSE zero

\* json.Unmarshal into the anonymous rule struct of DiscoveryRuleset
DecodeRule(d) ==
    [Comparator |-> Field(d, "comparator", ""),
     Path       |-> Field(d, "path", ""),
     Value      |-> Field(d, "value", "null")]

\* json.Unmarshal into DiscoveryRuleset
DecodeRuleset(d) ==
    LET rs == Field(d, "rules", <<>>)
    IN  [Name  |-> Field(d, "name", ""),
         Type  |-> Field(d, "type", ""),
         Rules |-> [i \in 1..Len(rs) |-> DecodeRule(rs[i])]]

\* json.Unmarshal(jsonContent, &signatures)
Unmarshal(doc) ==
    IF doc.kind # "object"
    THEN [err |-> "json: invalid document", val |-> [Name |-> "", Signatures |-> <<>>]]
    ELSE LET ss == Field(doc.fields, "signatures", <<>>)
         IN  [err |-> NoErr,
              val |-> [Name |-> Field(doc.fields, "name", ""),
                       Signatures |-> [i \in 1..Len(ss) |-> DecodeRuleset(ss[i])]]]

\* loadServiceSignatures reads discovery rules from file
loadServiceSignatures(servicesFile) ==
    LET file == FileSystem[servicesFile]
    IN  IF ~file.readable
        THEN [err |-> "open: no such file", val |-> [Name |-> "", Signatures |-> <<>>]]
        ELSE Unmarshal(file.doc)

\* ---------------------------------------------------------- construction

\* plugins.NewPlugin(name, config): keeps the name and the configuration
NewPlugin(name, config) ==
    [err |-> NoErr, val |-> [Name |-> name, Config |-> config]]

\* the loaded source is put in front of the earlier ones
PrependLoaded(signatures, loaded) == <<loaded>> \o signatures

\* signatures = append(signatures, loaded)
AppendLoaded(signatures, loaded) == Append(signatures, loaded)

RECURSIVE LoadAllSkipping(_, _, _)
\* a file that fails to load is logged and left out
LoadAllSkipping(files, k, signatures) ==
    IF k > Len(files) THEN [err |-> NoErr, val |-> signatures]
    ELSE LET loaded == loadServiceSignatures(files[k])
         IN  IF loaded.err # NoErr
             THEN LoadAllSkipping(files, k + 1, signatures)
             ELSE LoadAllSkipping(files, k + 1, AppendLoaded(signatures, loaded.val))

RECURSIVE LoadAll(_, _, _)
\* the loop over servicesFiles in NewRuleFilter, from index k on
LoadAll(files, k, signatures) ==
    IF k > Len(files) THEN [err |-> NoErr, val |-> signatures]
    ELSE LET loaded == loadServiceSignatures(files[k])
         IN  IF loaded.err # NoErr
             THEN [err |-> loaded.err, val |-> <<>>]
             ELSE LoadAll(files, k + 1, AppendLoaded(signatures, loaded.val))

\* NewRuleFilter creates a new instance
NewRuleFilter(name, config) ==
    LET plugin == NewPlugin(name, config)
    IN  IF plugin.err # NoErr THEN [err |-> plugin.err, val |-> NilFilter]
        ELSE IF Len(plugin.val.Config) = 0
        THEN [err |-> "servicesFiles configuration value missing", val |-> NilFilter]
        ELSE LET all == LoadAll(plugin.val.Config, 1, <<>>)
             IN  IF all.err # NoErr THEN [err |-> all.err, val |-> NilFilter]
                 ELSE [err |-> NoErr,
                       val |-> [Plugin |-> plugin.val, serviceRules |-> all.val]]

\* ------------------------------------------------------ service instances
\* services.Instance as far as matches and Map read or write it.

Instance(id, names, image, labels, pubPort, privPort, portLabels) ==
    [Container |-> [ID |-> id, Names |-> names, Image |-> image, Pod |-> "",
                    Command |-> "run", State |-> "running", Labels |-> labels],
     Port      |-> [IP |-> "10.0.0.1", Type |-> "tcp", PublicPort |-> pubPort,
                    PrivatePort |-> privPort, Labels |-> portLabels],
     Service   |-> [Type |-> ""]]

\* the label key "app" is set on the container and on the port
RedisInst ==
    Instance("c1", <<"cache">>, "redis:6", [k \in {"app"} |-> "cache"],
             16379, 6379, [k \in {"app"} |-> "db"])

PostgresInst ==
    Instance("c2", <<"pg">>, "postgres:13", NoLabels, 5432, 5432, NoLabels)

\* the container label alone carries the value the port label rule asks for
WebInst ==
    Instance("c3", <<"web", "www">>, "nginx:1", [k \in {"app"} |-> "db"],
             80, 8080, NoLabels)

\* a container reported without a name
AnonInst ==
    Instance("c4", <<>>, "redis:6", NoLabels, 0, 0, [k \in {"app"} |-> "db"])

Instances == {RedisInst, PostgresInst, WebInst, AnonInst}

Batches == SeqsUpTo(Instances, MaxBatch)

\* ------------------------------------------------------------ projection

Digits == <<"0", "1", "2", "3", "4", "5", "6", "7", "8", "9">>

RECURSIVE FormatUint(_, _)
\* strconv.FormatUint(n, base), base at most 10
FormatUint(n, base) ==
    IF n < base THEN Digits[n + 1]
    ELSE FormatUint(n \div base, base) \o Digits[(n % base) + 1]

\* for key, val := range labels { sm[prefix+key] = val }
AddLabels(sm, prefix, labels) ==
    LET added == {prefix \o key : key \in DOMAIN labels}
    IN  [a \in DOMAIN sm \cup added |->
            IF a \in added
            THEN labels[CHOOSE key \in DOMAIN labels : prefix \o key = a]
            ELSE sm[a]]

ContainerLabelPrefix == "ContainerLabel-"

\* both label collections written under one prefix
SharedLabelPrefix == "ContainerLabel-"

NetworkLabelPrefix == "NetworkLabel-"

\* sm: the flat attribute map matches builds; needs Container.Names[0]
Project(si) ==
    LET fixed ==
            [ContainerID        |-> si.Container.ID,
             ContainerName      |-> si.Container.Names[1],
             ContainerImage     |-> si.Container.Image,
             ContainerPod       |-> si.Container.Pod,
             ContainerCommand   |-> si.Container.Command,
             ContainerState     |-> si.Container.State,
             NetworkIP          |-> si.Port.IP,
             NetworkType        |-> si.Port.Type,
             NetworkPublicPort  |-> FormatUint(si.Port.PublicPort, 10),
             NetworkPrivatePort |-> FormatUint(si.Port.PrivatePort, 10)]
    IN  AddLabels(AddLabels(fixed, ContainerLabelPrefix, si.Container.Labels),
                  NetworkLabelPrefix, si.Port.Labels)

\* ----------------------------------------------------------- rule engine
\* github.com/hopkinsth/go-ruler, seen through the three calls matches makes.

\* values encoding/json can encode: everything a decoded file can hold
Encodable(value) == value # "<chan>"

\* json.Marshal(ruleset.Rules): one object per rule, keyed by field name
jsonMarshal(rules) ==
    IF \E i \in 1..Len(rules) : ~Encodable(rules[i].Value)
    THEN [err |-> "json: unsupported type", val |-> <<>>]
    ELSE [err |-> NoErr,
          val |-> [i \in 1..Len(rules) |->
                      [k \in {"Comparator", "Path", "Value"} |-> rules[i][k]]]]

KnownComparators == {"eq", "neq", "exists", "nexists"}

\* ruler.NewRulerWithJson(jsonRules): the engine's own rules, or its refusal
NewRulerWithJson(jsonRules) ==
    IF \E i \in 1..Len(jsonRules) : jsonRules[i]["Comparator"] \notin KnownComparators
    THEN [err |-> "ruler: cannot build rules", val |-> <<>>]
    ELSE [err |-> NoErr,
          val |-> [i \in 1..Len(jsonRules) |->
                      [comparator |-> jsonRules[i]["Comparator"],
                       path       |-> jsonRules[i]["Path"],
                       value      |-> jsonRules[i]["Value"]]]]

\* one rule of the engine against the attribute map
RuleHolds(rule, sm) ==
    CASE rule.comparator = "exists"  -> rule.path \in DOMAIN sm
      [] rule.comparator = "nexists" -> rule.path \notin DOMAIN sm
      [] rule.comparator = "eq"      -> rule.path \in DOMAIN sm /\ sm[rule.path] = rule.value
      [] rule.comparator = "neq"     -> rule.path \in DOMAIN sm /\ sm[rule.path] # rule.value
      [] OTHER -> FALSE

\* engine.Test(sm): every rule holds
Test(engine, sm) == \A i \in 1..Len(engine) : RuleHolds(engine[i], sm)

\* --------------------------------------------------------------- matches

\* an evaluation error reported as "no match"
matchesSwallowingErrors(si, ruleset) ==
    LET jsonRules == jsonMarshal(ruleset.Rules)
        engine == NewRulerWithJson(jsonRules.val)
    IN  IF jsonRules.err # NoErr \/ engine.err # NoErr
        THEN [panic |-> FALSE, ok |-> FALSE, err |-> NoErr]
        ELSE IF Len(si.Container.Names) = 0
        THEN [panic |-> TRUE, ok |-> FALSE, err |-> NoErr]
        ELSE [panic |-> FALSE, ok |-> Test(engine.val, Project(si)), err |-> NoErr]

\* Matches if service instance satisfies rules
matches(si, ruleset) ==
    LET jsonRules == jsonMarshal(ruleset.Rules)
    IN  IF jsonRules.err # NoErr
        THEN [panic |-> FALSE, ok |-> FALSE, err |-> jsonRules.err]
        ELSE LET engine == NewRulerWithJson(jsonRules.val)
             IN  IF engine.err # NoErr
                 THEN [panic |-> FALSE, ok |-> FALSE, err |-> engine.err]
                 ELSE IF Len(si.Container.Names) = 0
                 THEN [panic |-> TRUE, ok |-> FALSE, err |-> NoErr]
                 ELSE [panic |-> FALSE, ok |-> Test(engine.val, Project(si)),
                       err |-> NoErr]

\* ------------------------------------------------------------------- Map
\* A call record: pc is "idle" before the call, "loop" inside it, and
\* "done" (returned a result), "failed" (returned an error) or "panic"
\* (index out of range in matches) after it.  ref names the backing array
\* of the argument sis, arg is sis as it was when the call began, i/s/r
\* are the positions of the three nested loops, out is applicableServices.

CallIds == {1, 2}

IdleCall == [pc |-> "idle", ref |-> 0, arg |-> <<>>, i |-> 0, s |-> 0, r |-> 0,
             out |-> <<>>, ret |-> NilInstances, err |-> NoErr]

Returned(call) == call.pc \in {"done", "failed", "panic"}

\* every ruleset is compiled before the first instance is looked at
BeginCallEager(rules, ref, sis) ==
    IF \E s \in 1..Len(rules) : \E r \in 1..Len(rules[s].Signatures) :
          \/ jsonMarshal(rules[s].Signatures[r].Rules).err # NoErr
          \/ NewRulerWithJson(jsonMarshal(rules[s].Signatures[r].Rules).val).err # NoErr
    THEN [IdleCall EXCEPT !.pc = "failed", !.ref = ref, !.arg = sis,
                          !.err = "ruler: cannot build rules"]
    ELSE [IdleCall EXCEPT !.pc = "loop", !.ref = ref, !.arg = sis,
                          !.i = 1, !.s = 1, !.r = 1]

\* entry of Map: applicableServices is empty, the loops are at their start
BeginCall(rules, ref, sis) ==
    [IdleCall EXCEPT !.pc = "loop", !.ref = ref, !.arg = sis,
                     !.i = 1, !.s = 1, !.r = 1]

\* the assignment reaches every batch, as if the callers shared one array
WriteTypeShared(m, ref, i, type) ==
    [q \in DOMAIN m |->
        IF i <= Len(m[q]) THEN [m[q] EXCEPT ![i].Service.Type = type] ELSE m[q]]

\* sis[i].Service.Type = services.ServiceType(ruleset.Type)
WriteType(m, ref, i, type) ==
    [m EXCEPT ![ref][i].Service.Type = type]

\* break instead of continue OUTER: the next rule source is still tried
OnMatchBreak(st, ruleset, m) ==
    LET written == WriteType(m, st.ref, st.i, ruleset.Type)
    IN  [call |-> [st EXCEPT !.out = Append(@, written[st.ref][st.i]),
                             !.s = @ + 1, !.r = 1],
         mem  |-> written]

\* the instance is appended before its type is assigned
OnMatchAppendFirst(st, ruleset, m) ==
    [call |-> [st EXCEPT !.out = Append(@, m[st.ref][st.i]),
                         !.i = @ + 1, !.s = 1, !.r = 1],
     mem  |-> WriteType(m, st.ref, st.i, ruleset.Type)]

\* if matches { assign the type; append; continue OUTER }
OnMatch(st, ruleset, m) ==
    LET written == WriteType(m, st.ref, st.i, ruleset.Type)
    IN  [call |-> [st EXCEPT !.out = Append(@, written[st.ref][st.i]),
                             !.i = @ + 1, !.s = 1, !.r = 1],
         mem  |-> written]

\* if err != nil { return nil, err }
OnError(st, err, m) ==
    [call |-> [st EXCEPT !.pc = "failed", !.ret = NilInstances, !.err = err], mem |-> m]

\* an instance that already has a type is passed over
MapStepSkipTyped(rules, st, m) ==
    LET sis == m[st.ref]
    IN  IF st.i > Len(sis)
        THEN [call |-> [st EXCEPT !.pc = "done", !.ret = Slice(st.out)], mem |-> m]
        ELSE IF st.s > Len(rules) \/ sis[st.i].Service.Type # ""
        THEN [call |-> [st EXCEPT !.i = @ + 1, !.s = 1, !.r = 1], mem |-> m]
        ELSE IF st.r > Len(rules[st.s].Signatures)
        THEN [call |-> [st EXCEPT !.s = @ + 1, !.r = 1], mem |-> m]
        ELSE LET ruleset == rules[st.s].Signatures[st.r]
                 res == matches(sis[st.i], ruleset)
             IN  IF res.panic THEN [call |-> [st EXCEPT !.pc = "panic"], mem |-> m]
                 ELSE IF res.err # NoErr THEN OnError(st, res.err, m)
                 ELSE IF res.ok THEN OnMatch(st, ruleset, m)
                 ELSE [call |-> [st EXCEPT !.r = @ + 1], mem |-> m]

\* One step of Map's loops at position (i, s, r): the return once sis is
\* exhausted, the end of a range loop, or one evaluation of matches with
\* what follows it.
MapStep(rules, st, m) ==
    LET sis == m[st.ref]
    IN  IF st.i > Len(sis)
        THEN [call |-> [st EXCEPT !.pc = "done", !.ret = Slice(st.out)], mem |-> m]
        ELSE IF st.s > Len(rules)
        THEN [call |-> [st EXCEPT !.i = @ + 1, !.s = 1, !.r = 1], mem |-> m]
        ELSE IF st.r > Len(rules[st.s].Signatures)
        THEN [call |-> [st EXCEPT !.s = @ + 1, !.r = 1], mem |-> m]
        ELSE LET ruleset == rules[st.s].Signatures[st.r]
                 res == matches(sis[st.i], ruleset)
             IN  IF res.panic THEN [call |-> [st EXCEPT !.pc = "panic"], mem |-> m]
                 ELSE IF res.err # NoErr THEN OnError(st, res.err, m)
                 ELSE IF res.ok THEN OnMatch(st, ruleset, m)
                 ELSE [call |-> [st EXCEPT !.r = @ + 1], mem |-> m]

RECURSIVE MapRun(_, _, _)
\* Map from the position of st until it returns
MapRun(rules, st, m) ==
    IF st.pc # "loop" THEN [call |-> st, mem |-> m]
    ELSE LET next == MapStep(rules, st, m)
         IN  MapRun(rules, next.call, next.mem)

\* filter.Map(sis), sis being the slice backed by mem[ref]
MapCall(rules, ref, m) == MapRun(rules, BeginCall(rules, ref, m[ref]), m)

\* ------------------------------------------------- sequential behaviours

Init ==
    /\ servicesFiles \in Configs
    /\ built = FALSE
    /\ filter = NilFilter
    /\ newErr = NoErr
    /\ mem = [c \in CallIds |-> <<>>]
    /\ calls = [c \in CallIds |-> IdleCall]

\* the host constructs the plugin from its configuration
Construct ==
    /\ ~built
    /\ LET new == NewRuleFilter("filters/service-rules", servicesFiles)
       IN  /\ filter' = new.val
           /\ newErr' = new.err
    /\ built' = TRUE
    /\ UNCHANGED <<servicesFiles, mem, calls>>

\* the host hands a freshly discovered batch to Map
MapBatch ==
    /\ built /\ filter # NilFilter
    /\ calls[1].pc = "idle"
    /\ \E sis \in Batches :
          LET run == MapCall(filter.serviceRules, 1, [mem EXCEPT ![1] = sis])
          IN  /\ calls' = [calls EXCEPT ![1] = run.call]
              /\ mem' = run.mem
    /\ UNCHANGED <<servicesFiles, built, filter, newErr>>

\* the host hands the instances Map returned to Map once more
MapOutputAgain ==
    /\ calls[1].pc = "done"
    /\ calls[2].pc = "idle"
    /\ LET run == MapCall(filter.serviceRules, 2, [mem EXCEPT ![2] = calls[1].ret.items])
       IN  /\ calls' = [calls EXCEPT ![2] = run.call]
           /\ mem' = run.mem
    /\ UNCHANGED <<servicesFiles, built, filter, newErr>>

\* the host hands the slice it passed before to Map once more
MapInputAgain ==
    /\ Returned(calls[1])
    /\ calls[2].pc = "idle"
    /\ LET run == MapCall(filter.serviceRules, 1, mem)
       IN  /\ calls' = [calls EXCEPT ![2] = run.call]
           /\ mem' = run.mem
    /\ UNCHANGED <<servicesFiles, built, filter, newErr>>

Next == Construct \/ MapBatch \/ MapOutputAgain \/ MapInputAgain

Spec == Init /\ [][Next]_vars

\* ------------------------------------------------ what the claims speak of

RECURSIVE Flatten(_)
\* the rulesets of a store in priority order: source by source
Flatten(rules) ==
    IF rules = <<>> THEN <<>>
    ELSE Head(rules).Signatures \o Flatten(Tail(rules))

\* the rule engine refuses the ruleset
Defective(ruleset) ==
    \/ jsonMarshal(ruleset.Rules).err # NoErr
    \/ NewRulerWithJson(jsonMarshal(ruleset.Rules).val).err # NoErr

\* the rule engine accepts the ruleset and the instance passes its test
Satisfies(si, ruleset) ==
    /\ ~Defective(ruleset)
    /\ Len(si.Container.Names) > 0
    /\ Test(NewRulerWithJson(jsonMarshal(ruleset.Rules).val).val, Project(si))

Min(S) == CHOOSE x \in S : \A y \in S : x <= y
Max(S) == CHOOSE x \in S : \A y \in S : x >= y

\* the positions of the rulesets of flat the instance matches
Matching(si, flat) == {k \in 1..Len(flat) : Satisfies(si, flat[k])}

\* What one instance meets on its way through flat: its first match, a
\* defective ruleset before any match, the missing name, or nothing.
Verdict(si, flat) ==
    LET broken == {k \in 1..Len(flat) : Defective(flat[k])}
        stop   == IF broken = {} THEN Len(flat) + 1 ELSE Min(broken)
        hits   == {k \in Matching(si, flat) : k < stop}
    IN  IF Len(si.Container.Names) = 0
        THEN IF stop > 1 THEN "panic"
             ELSE IF Len(flat) > 0 THEN "error" ELSE "none"
        ELSE IF hits # {} THEN "match"
        ELSE IF stop <= Len(flat) THEN "error" ELSE "none"

\* how a call on sis must end, going by the instances' verdicts in order
Expected(sis, flat) ==
    LET bad == {i \in 1..Len(sis) : Verdict(sis[i], flat) \in {"error", "panic"}}
    IN  IF bad = {} THEN "done"
        ELSE IF Verdict(sis[Min(bad)], flat) = "error" THEN "failed" ELSE "panic"

Untyped(sis) == [i \in 1..Len(sis) |-> [sis[i] EXCEPT !.Service.Type = ""]]

Store == Flatten(filter.serviceRules)

\* C1: every instance in the output of a successful Map call carries the
\* type of the earliest ruleset, in source-then-ruleset order, that it
\* matches; no later matching ruleset decides or overwrites it.
FirstMatchWins ==
    \A c \in CallIds :
        calls[c].pc = "done" =>
            \A k \in 1..Len(calls[c].ret.items) :
                LET si == calls[c].ret.items[k]
                    hits == Matching(si, Store)
                IN  /\ hits # {}
                    /\ si.Service.Type = Store[Min(hits)].Type

\* a classified instance that rulesets of different types would match
FirstMatchWinsWitness ==
    /\ calls[1].pc = "done"
    /\ Len(filter.serviceRules) > 1
    /\ \E k \in 1..Len(calls[1].ret.items) :
          LET hits == Matching(calls[1].ret.items[k], Store)
          IN  /\ Cardinality(hits) > 1
              /\ Store[Max(hits)].Type # Store[Min(hits)].Type
              /\ calls[1].ret.items[k].Service.Type = Store[Min(hits)].Type

\* C2: a Map call that meets no evaluation error returns exactly the
\* instances of its input that match some ruleset, each once, in input order.
OutputIsMatchingSubsequence ==
    \A c \in CallIds :
        calls[c].pc = "done" =>
            /\ ~calls[c].ret.isNil
            /\ calls[c].err = NoErr
            /\ Untyped(calls[c].ret.items)
                 = SelectSeq(Untyped(calls[c].arg),
                             LAMBDA si : Matching(si, Store) # {})

\* a batch of which some instances survive, in order, and one is dropped
OutputIsMatchingSubsequenceWitness ==
    /\ calls[1].pc = "done"
    /\ Len(calls[1].arg) = Len(calls[1].ret.items) + 1
    /\ Len(calls[1].ret.items) > 1
    /\ calls[1].ret.items[1].Container.ID # calls[1].ret.items[2].Container.ID
    /\ Cardinality(Matching(calls[1].ret.items[1], Store)) > 1

\* C3: a Map call in which some instance reaches a defective ruleset fails
\* with the error and returns the nil slice, whatever it had collected.
FailFastNoPartialOutput ==
    \A c \in CallIds :
        Returned(calls[c]) =>
            /\ Expected(calls[c].arg, Store) = "failed" => calls[c].pc = "failed"
            /\ calls[c].pc = "failed" =>
                  /\ calls[c].ret = NilInstances
                  /\ calls[c].err # NoErr

\* a failed call that had already collected a matching instance
FailFastNoPartialOutputWitness ==
    /\ calls[1].pc = "failed"
    /\ Len(calls[1].out) > 0
    /\ calls[1].ret = NilInstances

\* C4: NewRuleFilter returns a filter exactly when the list is non-empty and
\* every file is read and decoded; otherwise it returns nil and an error.
ConstructionAllOrNothing ==
    built =>
        /\ filter # NilFilter <=>
              /\ Len(servicesFiles) > 0
              /\ \A k \in 1..Len(servicesFiles) :
                    /\ FileSystem[servicesFiles[k]].readable
                    /\ FileSystem[servicesFiles[k]].doc.kind = "object"
        /\ filter = NilFilter <=> newErr # NoErr
        /\ Len(servicesFiles) = 0 =>
              newErr = "servicesFiles configuration value missing"
        /\ filter # NilFilter =>
              Len(filter.serviceRules) = Len(servicesFiles)

\* construction fails on a later file after an earlier one had loaded
ConstructionAllOrNothingWitness ==
    /\ built
    /\ filter = NilFilter
    /\ Len(servicesFiles) > 1
    /\ loadServiceSignatures(servicesFiles[1]).err = NoErr

\* C5: the store holds one entry per configured file, in configured order,
\* and that order is the priority order of classification.
StoreInConfiguredOrder ==
    built /\ filter # NilFilter =>
        /\ Len(filter.serviceRules) = Len(servicesFiles)
        /\ \A i \in 1..Len(servicesFiles) :
              LET doc == FileSystem[servicesFiles[i]].doc.fields
                  got == filter.serviceRules[i]
              IN  /\ got.Name = doc.name
                  /\ Len(got.Signatures) = Len(doc.signatures)
                  /\ \A r \in 1..Len(got.Signatures) :
                        got.Signatures[r].Type = doc.signatures[r].type
        /\ \A c \in CallIds :
              calls[c].pc = "done" =>
                  \A k \in 1..Len(calls[c].ret.items) :
                      LET si == calls[c].ret.items[k]
                          configured ==
                              Flatten([i \in 1..Len(servicesFiles) |->
                                          Unmarshal(FileSystem[servicesFiles[i]].doc).val])
                      IN  si.Service.Type
                            = configured[Min(Matching(si, configured))].Type

\* two different files loaded, and an instance both would classify
StoreInConfiguredOrderWitness ==
    /\ built /\ filter # NilFilter
    /\ Len(servicesFiles) > 1
    /\ servicesFiles[1] # servicesFiles[2]
    /\ calls[1].pc = "done"
    /\ \E k \in 1..Len(calls[1].ret.items) :
          \E r \in 1..Len(filter.serviceRules[2].Signatures) :
              /\ Satisfies(calls[1].ret.items[k], filter.serviceRules[2].Signatures[r])
              /\ calls[1].ret.items[k].Service.Type
                   # filter.serviceRules[2].Signatures[r].Type

\* C6: a second Map call on the instances of the first, annotated or not,
\* ends as the first did and returns the same instances and types.
MapIsIdempotent ==
    Returned(calls[2]) =>
        /\ calls[2].pc = calls[1].pc
        /\ calls[2].ret = calls[1].ret
        /\ calls[2].err = calls[1].err

\* the second call was handed instances the first had annotated
MapIsIdempotentWitness ==
    /\ calls[2].pc = "done"
    /\ Len(calls[2].ret.items) > 0
    /\ \E i \in 1..Len(calls[2].arg) : calls[2].arg[i].Service.Type # ""
    /\ Len(calls[2].arg) > Len(calls[2].ret.items)

\* the instances matches has been handed
Projected ==
    {si \in UNION {{mem[c][i] : i \in 1..Len(mem[c])} : c \in CallIds} :
        Len(si.Container.Names) > 0}

\* C7: a label key set on the container and on the port yields two
\* attributes, each with its own value, and no label replaces a fixed one.
LabelsAreNamespaced ==
    \A si \in Projected :
        LET sm == Project(si)
        IN  /\ \A key \in DOMAIN si.Container.Labels :
                  /\ "ContainerLabel-" \o key \in DOMAIN sm
                  /\ sm["ContainerLabel-" \o key] = si.Container.Labels[key]
            /\ \A key \in DOMAIN si.Port.Labels :
                  /\ "NetworkLabel-" \o key \in DOMAIN sm
                  /\ sm["NetworkLabel-" \o key] = si.Port.Labels[key]
            /\ Cardinality(DOMAIN sm)
                 = 10 + Cardinality(DOMAIN si.Container.Labels)
                      + Cardinality(DOMAIN si.Port.Labels)
            /\ sm["ContainerID"] = si.Container.ID
            /\ sm["ContainerName"] = si.Container.Names[1]
            /\ sm["ContainerImage"] = si.Container.Image
            /\ sm["ContainerPod"] = si.Container.Pod
            /\ sm["ContainerCommand"] = si.Container.Command
            /\ sm["ContainerState"] = si.Container.State
            /\ sm["NetworkIP"] = si.Port.IP
            /\ sm["NetworkType"] = si.Port.Type

\* an instance with the same key in both collections, under different
\* values, classified by the ruleset that reads both attributes
LabelsAreNamespacedWitness ==
    /\ calls[1].pc = "done"
    /\ \E k \in 1..Len(calls[1].ret.items) :
          LET si == calls[1].ret.items[k]
          IN  /\ \E key \in DOMAIN si.Container.Labels \cap DOMAIN si.Port.Labels :
                    si.Container.Labels[key] # si.Port.Labels[key]
              /\ si.Service.Type = "database"

\* C8: a failed Map call leaves the types of all its input instances as
\* they were before the call.
FailedMapLeavesInputUntouched ==
    \A c \in CallIds :
        calls[c].pc = "failed" => mem[calls[c].ref] = calls[c].arg

\* C10: Map fails only if some instance reaches a defective ruleset before
\* matching; a defective ruleset no instance reaches does not fail the call.
DefectiveRulesetFailsOnlyWhenReached ==
    \A c \in CallIds :
        Returned(calls[c]) =>
            /\ calls[c].pc = "failed" =>
                  \E i \in 1..Len(calls[c].arg) :
                      /\ Verdict(calls[c].arg[i], Store) = "error"
                      /\ \A j \in 1..(i - 1) :
                            Verdict(calls[c].arg[j], Store) \in {"match", "none"}
            /\ (\A i \in 1..Len(calls[c].arg) :
                    Verdict(calls[c].arg[i], Store) \in {"match", "none"})
                  => calls[c].pc = "done"

\* a non-empty batch classified by a store that holds a defective ruleset
DefectiveRulesetFailsOnlyWhenReachedWitness ==
    /\ calls[1].pc = "done"
    /\ Len(calls[1].ret.items) > 0
    /\ \E k \in 1..Len(Store) : Defective(Store[k])

\* ------------------------------------------------- concurrent behaviours
\* Two goroutines call Map on one filter, each with a slice of its own.

ConcConfigs ==
    {<<"a.json", "b.json">>, <<"b.json", "a.json">>, <<"a.json", "defect.json">>}

\* what each goroutine's discovery source may report
ConcBatches ==
    [c \in CallIds |->
        SeqsUpTo(IF c = 1 THEN {RedisInst, WebInst} ELSE {PostgresInst, WebInst},
                 MaxConcBatch)]

InitConc ==
    /\ servicesFiles \in ConcConfigs
    /\ built = TRUE
    /\ filter = NewRuleFilter("filters/service-rules", servicesFiles).val
    /\ newErr = NoErr
    /\ mem \in [CallIds -> UNION {ConcBatches[c] : c \in CallIds}]
    /\ \A c \in CallIds : mem[c] \in ConcBatches[c]
    /\ calls = [c \in CallIds |-> IdleCall]

\* goroutine c enters Map with its slice
Enter(c) ==
    /\ calls[c].pc = "idle"
    /\ calls' = [calls EXCEPT ![c] = BeginCall(filter.serviceRules, c, mem[c])]
    /\ UNCHANGED <<servicesFiles, built, filter, newErr, mem>>

\* goroutine c takes one step of Map's loops
Iterate(c) ==
    /\ calls[c].pc = "loop"
    /\ LET next == MapStep(filter.serviceRules, calls[c], mem)
       IN  /\ calls' = [calls EXCEPT ![c] = next.call]
           /\ mem' = next.mem
    /\ UNCHANGED <<servicesFiles, built, filter, newErr>>

NextConc == \E c \in CallIds : Enter(c) \/ Iterate(c)

SpecConc == InitConc /\ [][NextConc]_vars

\* the call of goroutine c, run from its start with no other call around
Alone(c) ==
    MapCall(filter.serviceRules, c,
            [d \in CallIds |-> IF d = c THEN calls[c].arg ELSE <<>>])

\* C9: Map calls never change the store, and however two calls on slices
\* of their own interleave, each writes the types of its own instances
\* only and ends as it would have ended running alone.
ConcurrentCallsIndependent ==
    /\ filter = NewRuleFilter("filters/service-rules", servicesFiles).val
    /\ \A c \in CallIds :
          IF calls[c].pc = "idle"
          THEN mem[c] = Untyped(mem[c])
          ELSE LET rest == MapRun(filter.serviceRules, calls[c], mem)
               IN  /\ rest.call = Alone(c).call
                   /\ rest.mem[c] = Alone(c).mem[c]
                   /\ Untyped(mem[c]) = Untyped(calls[c].arg)

\* both calls are inside their loops and both have assigned a type
ConcurrentCallsIndependentWitness ==
    /\ calls[1].pc = "loop" /\ Len(calls[1].out) > 0
    /\ calls[2].pc = "loop" /\ Len(calls[2].out) > 0
    /\ mem[1] # calls[1].arg
    /\ mem[2] # calls[2].arg

====
